---- MODULE Spec2Model ----
(***************************************************************************)
(* Model of the multi-tenant lottery service                               *)
(* (internal/services/lottery_service.go): the session store, the session  *)
(* mutators, the draw engine and the inactivity sweep.                     *)
(*                                                                         *)
(* Sessions are heap objects (Go pointers): the store maps a tenant ID to  *)
(* an object id, and a caller that obtained a session keeps its object id. *)
(* Time is counted in hours.                                 *)
(***************************************************************************)
EXTENDS Integers, Sequences, FiniteSets, TLC

\* ---------------------------------------------------------------- bounds
MaxPrizes == 2          \* prizes added to one session
MaxTime == 2            \* last clock tick
NumObj == 3             \* session objects that can be live at once

\* ------------------------------------------------------- input domains
Tenants == {"t1", "t2"}
PrizeNames == {"A", "B"}
ParticipantIDs == {"1", "2"}

\* --------------------------------------------------- program constants
Hour == 1               \* time.Hour

ErrNone == "ok"
ErrPrizeNotFound == "PrizeNotFound"
ErrPrizeExhausted == "PrizeExhausted"
ErrNoEligibleParticipants == "NoEligibleParticipants"

Nil == 0
ObjIds == 1..NumObj
Procs == {"r1", "r2"}

VARIABLES
    sessions,   \* LotteryService.sessions: tenant ID -> session object or Nil
    heap,       \* session objects: object id -> LotterySession
    now,        \* time.Now()
    last,       \* the last service call and what it returned
    procs       \* the requests in flight: where each stands and its locals

vars == <<sessions, heap, now, last, procs>>

\* ------------------------------------------------------------- records
Prize(name, item, quantity, drawFromAll) ==
    [Name |-> name, Item |-> item, Quantity |-> quantity, DrawFromAll |-> drawFromAll]

Participant(id, name) == [ID |-> id, Name |-> name]

LotteryResult(prize, winner) ==
    [PrizeName |-> prize.Name, PrizeItem |-> prize.Item,
     WinnerID |-> winner.ID, WinnerName |-> winner.Name]

\* A session as getSession creates it; LastActivity is set right after.
NewSession ==
    [Prizes |-> <<>>, Participants |-> <<>>,
     Winners |-> [id \in ParticipantIDs |-> {}],
     LotteryResults |-> <<>>, LastActivity |-> 0]

\* ---------------------------------------------------------------- heap
\* The objects the store refers to.
Stored(st) == {st[t] : t \in Tenants} \ {Nil}

\* The objects the requests in flight hold.
Held(pr) == {pr[r].session : r \in Procs} \ {Nil}

Live(st, pr) == Stored(st) \cup Held(pr)

\* Objects nothing refers to are reclaimed: they read as a zero session.
Collect(h, live) == [o \in ObjIds |-> IF o \in live THEN h[o] ELSE NewSession]

\* The object a new session is allocated at.
Alloc(live) == CHOOSE o \in ObjIds \ live : \A q \in ObjIds \ live : o <= q

\* Mutation: the store is read and written at one fixed key.
getSession_FixedKey(st, h, live, tenantID, t) ==
    LET exists == st["t1"] # Nil
        session == IF exists THEN st["t1"] ELSE Alloc(live)
        h1 == IF exists THEN h ELSE [h EXCEPT ![session] = NewSession]
        st1 == IF exists THEN st ELSE [st EXCEPT !["t1"] = session]
    IN  [sessions |-> st1,
         heap |-> [h1 EXCEPT ![session].LastActivity = t],
         session |-> session]

\* Mutation: a new session is created on every access.
getSession_AlwaysNew(st, h, live, tenantID, t) ==
    LET session == Alloc(live)
    IN  [sessions |-> [st EXCEPT ![tenantID] = session],
         heap |-> [h EXCEPT ![session] = [NewSession EXCEPT !.LastActivity = t]],
         session |-> session]

\* ------------------------------------------------------------ getSession
\* Mutation: LastActivity is set when the session is created only.
getSession_NoHeartbeat(st, h, live, tenantID, t) ==
    LET exists == st[tenantID] # Nil
        session == IF exists THEN st[tenantID] ELSE Alloc(live)
        h1 == IF exists THEN h
              ELSE [h EXCEPT ![session] = [NewSession EXCEPT !.LastActivity = t]]
        st1 == IF exists THEN st ELSE [st EXCEPT ![tenantID] = session]
    IN  [sessions |-> st1, heap |-> h1, session |-> session]

\* Mutation: a session that is created is not put into the store.
getSession_NotStored(st, h, live, tenantID, t) ==
    LET exists == st[tenantID] # Nil
        session == IF exists THEN st[tenantID] ELSE Alloc(live)
        h1 == IF exists THEN h ELSE [h EXCEPT ![session] = NewSession]
    IN  [sessions |-> st,
         heap |-> [h1 EXCEPT ![session].LastActivity = t],
         session |-> session]

\* Returns the store and heap after the call and the session returned.
getSession(st, h, live, tenantID, t) ==
    LET exists == st[tenantID] # Nil
        session == IF exists THEN st[tenantID] ELSE Alloc(live)
        h1 == IF exists THEN h ELSE [h EXCEPT ![session] = NewSession]
        st1 == IF exists THEN st ELSE [st EXCEPT ![tenantID] = session]
    IN  [sessions |-> st1,
         heap |-> [h1 EXCEPT ![session].LastActivity = t],
         session |-> session]

CanGetSession(st, live, tenantID) == st[tenantID] # Nil \/ ObjIds \ live # {}

Call(op, tenantID, arg, err, session, ret) ==
    [op |-> op, tenantID |-> tenantID, arg |-> arg, err |-> err,
     session |-> session, ret |-> ret]

\* ------------------------------------------------------------ accessors
GetPrizes(st, h, live, tenantID, t) ==
    LET g == getSession(st, h, live, tenantID, t)
    IN  [sessions |-> g.sessions, heap |-> g.heap, session |-> g.session,
         ret |-> g.heap[g.session].Prizes]

GetParticipants(st, h, live, tenantID, t) ==
    LET g == getSession(st, h, live, tenantID, t)
    IN  [sessions |-> g.sessions, heap |-> g.heap, session |-> g.session,
         ret |-> g.heap[g.session].Participants]

GetLotteryResults(st, h, live, tenantID, t) ==
    LET g == getSession(st, h, live, tenantID, t)
    IN  [sessions |-> g.sessions, heap |-> g.heap, session |-> g.session,
         ret |-> g.heap[g.session].LotteryResults]

\* -------------------------------------------------------------- mutators
\* Mutation: a prize added under an existing name restocks that prize.
AppendPrize_Restocks(h, session, prize) ==
    LET hits == {i \in 1..Len(h[session].Prizes) : h[session].Prizes[i].Name = prize.Name}
    IN  IF hits = {}
        THEN [h EXCEPT ![session].Prizes = Append(@, prize)]
        ELSE LET i == CHOOSE i \in hits : \A j \in hits : i <= j
             IN  [h EXCEPT ![session].Prizes[i].Quantity = @ + prize.Quantity]

AppendPrize(h, session, prize) ==
    [h EXCEPT ![session].Prizes = Append(@, prize)]

AddPrize(st, h, live, tenantID, name, item, quantity, drawFromAll, t) ==
    LET g == getSession(st, h, live, tenantID, t)
    IN  [sessions |-> g.sessions, session |-> g.session,
         heap |-> AppendPrize(g.heap, g.session, Prize(name, item, quantity, drawFromAll))]

\* The loop of AddParticipant: is the id already in the list?
HasParticipant(participants, id) ==
    \E i \in 1..Len(participants) : participants[i].ID = id

\* The assignment of the appended slice: hdr is the slice append() read.
WriteParticipants(h, session, hdr, participant) ==
    [h EXCEPT ![session].Participants = Append(hdr, participant)]

AppendParticipant(h, session, participant) ==
    WriteParticipants(h, session, h[session].Participants, participant)

\* Mutation: a known ID takes the name of the later call.
AddParticipant_LastNameWins(st, h, live, tenantID, id, name, t) ==
    LET g == getSession(st, h, live, tenantID, t)
        participants == g.heap[g.session].Participants
    IN  [sessions |-> g.sessions, session |-> g.session,
         heap |-> IF HasParticipant(participants, id)
                  THEN [g.heap EXCEPT ![g.session].Participants =
                           [k \in 1..Len(participants) |->
                               IF participants[k].ID = id
                               THEN Participant(id, name) ELSE participants[k]]]
                  ELSE AppendParticipant(g.heap, g.session, Participant(id, name))]

AddParticipant(st, h, live, tenantID, id, name, t) ==
    LET g == getSession(st, h, live, tenantID, t)
    IN  [sessions |-> g.sessions, session |-> g.session,
         heap |-> IF HasParticipant(g.heap[g.session].Participants, id)
                  THEN g.heap
                  ELSE AppendParticipant(g.heap, g.session, Participant(id, name))]

\* ----------------------------------------------------------- draw engine
\* Mutation: the lookup takes the first prize of the name that has stock.
FindPrize_FirstInStock(prizes, prizeName) ==
    LET inStock == {i \in 1..Len(prizes) :
                       prizes[i].Name = prizeName /\ prizes[i].Quantity > 0}
        named == {i \in 1..Len(prizes) : prizes[i].Name = prizeName}
    IN  IF inStock # {} THEN CHOOSE i \in inStock : \A j \in inStock : i <= j
        ELSE IF named # {} THEN CHOOSE i \in named : \A j \in named : i <= j
        ELSE 0

\* Index of the first prize with this name, 0 when there is none (nil).
FindPrize(prizes, prizeName) ==
    IF \E i \in 1..Len(prizes) : prizes[i].Name = prizeName
    THEN CHOOSE i \in 1..Len(prizes) :
            /\ prizes[i].Name = prizeName
            /\ \A j \in 1..(i - 1) : prizes[j].Name # prizeName
    ELSE 0

\* Mutation: the drawFromAll rule is applied to every prize.
IsEligible_AlwaysFromAll(targetPrize, wins, prizeName) == prizeName \notin wins

\* Mutation: the exclusive rule is applied to every prize.
IsEligible_AlwaysExclusive(targetPrize, wins, prizeName) == Cardinality(wins) = 0

\* The test of the eligibility loop for one participant's win record.
IsEligible(targetPrize, wins, prizeName) ==
    IF targetPrize.DrawFromAll
    THEN prizeName \notin wins
    ELSE Cardinality(wins) = 0

EligibleOf(session, targetPrize, prizeName) ==
    SelectSeq(session.Participants,
              LAMBDA p : IsEligible(targetPrize, session.Winners[p.ID], prizeName))

\* Mutation: the stock test is "< 0".
Classify_StockBelowZero(session, prizeName) ==
    LET i == FindPrize(session.Prizes, prizeName)
    IN  IF i = 0 THEN ErrPrizeNotFound
        ELSE IF session.Prizes[i].Quantity < 0 THEN ErrPrizeExhausted
        ELSE IF Len(EligibleOf(session, session.Prizes[i], prizeName)) = 0
             THEN ErrNoEligibleParticipants
        ELSE ErrNone

\* Mutation: the eligible set is tested before the stock.
Classify_EligibleFirst(session, prizeName) ==
    LET i == FindPrize(session.Prizes, prizeName)
    IN  IF i = 0 THEN ErrPrizeNotFound
        ELSE IF Len(EligibleOf(session, session.Prizes[i], prizeName)) = 0
             THEN ErrNoEligibleParticipants
        ELSE IF session.Prizes[i].Quantity <= 0 THEN ErrPrizeExhausted
        ELSE ErrNone

\* The outcome of GetEligibleParticipants on a session value.
Classify(session, prizeName) ==
    LET i == FindPrize(session.Prizes, prizeName)
    IN  IF i = 0 THEN ErrPrizeNotFound
        ELSE IF session.Prizes[i].Quantity <= 0 THEN ErrPrizeExhausted
        ELSE IF Len(EligibleOf(session, session.Prizes[i], prizeName)) = 0
             THEN ErrNoEligibleParticipants
        ELSE ErrNone

GetEligibleParticipants(st, h, live, tenantID, prizeName, t) ==
    LET g == getSession(st, h, live, tenantID, t)
        session == g.heap[g.session]
        err == Classify(session, prizeName)
    IN  [sessions |-> g.sessions, heap |-> g.heap, session |-> g.session,
         err |-> err,
         ret |-> IF err = ErrNone
                 THEN EligibleOf(session, session.Prizes[FindPrize(session.Prizes, prizeName)], prizeName)
                 ELSE <<>>]

\* Mutation: the draw empties the prize instead of taking one.
Commit_TakesAll(h, session, prizeName, winner) ==
    LET i == FindPrize(h[session].Prizes, prizeName)
        targetPrize == h[session].Prizes[i]
    IN  [h EXCEPT ![session].Prizes[i].Quantity = 0,
                  ![session].Winners[winner.ID] = @ \cup {prizeName},
                  ![session].LotteryResults = Append(@, LotteryResult(targetPrize, winner))]

\* Mutation: the winner's record is replaced by the prize just won.
Commit_ForgetsWins(h, session, prizeName, winner) ==
    LET i == FindPrize(h[session].Prizes, prizeName)
        targetPrize == h[session].Prizes[i]
    IN  [h EXCEPT ![session].Prizes[i].Quantity = @ - 1,
                  ![session].Winners[winner.ID] = {prizeName},
                  ![session].LotteryResults = Append(@, LotteryResult(targetPrize, winner))]

\* Mutation: the draw logs the result without recording the win.
Commit_SkipsWinRecord(h, session, prizeName, winner) ==
    LET i == FindPrize(h[session].Prizes, prizeName)
        targetPrize == h[session].Prizes[i]
    IN  [h EXCEPT ![session].Prizes[i].Quantity = @ - 1,
                  ![session].LotteryResults = Append(@, LotteryResult(targetPrize, winner))]

\* Mutation: a draw takes two units of the prize.
Commit_TakesTwo(h, session, prizeName, winner) ==
    LET i == FindPrize(h[session].Prizes, prizeName)
        targetPrize == h[session].Prizes[i]
    IN  [h EXCEPT ![session].Prizes[i].Quantity = @ - 2,
                  ![session].Winners[winner.ID] = @ \cup {prizeName},
                  ![session].LotteryResults = Append(@, LotteryResult(targetPrize, winner))]

\* Draw's "Update state": decrement, record the win, append the result.
Commit(h, session, prizeName, winner) ==
    LET i == FindPrize(h[session].Prizes, prizeName)
        targetPrize == h[session].Prizes[i]
    IN  [h EXCEPT ![session].Prizes[i].Quantity = @ - 1,
                  ![session].Winners[winner.ID] = @ \cup {prizeName},
                  ![session].LotteryResults = Append(@, LotteryResult(targetPrize, winner))]

\* Mutation: the quantity is taken before the eligible set is known to be
\* non-empty.
Draw_TakesBeforeCheck(st, h, live, tenantID, prizeName, winnerIndex, t) ==
    LET g == getSession(st, h, live, tenantID, t)
        e == GetEligibleParticipants(g.sessions, g.heap, live \cup {g.session},
                                     tenantID, prizeName, t)
        i == FindPrize(e.heap[g.session].Prizes, prizeName)
    IN  IF e.err = ErrNoEligibleParticipants
        THEN [sessions |-> e.sessions,
              heap |-> [e.heap EXCEPT ![g.session].Prizes[i].Quantity = @ - 1],
              session |-> g.session, err |-> e.err, ret |-> <<>>]
        ELSE IF e.err # ErrNone
        THEN [sessions |-> e.sessions, heap |-> e.heap, session |-> g.session,
              err |-> e.err, ret |-> <<>>]
        ELSE LET winner == e.ret[winnerIndex]
                 h2 == Commit(e.heap, g.session, prizeName, winner)
             IN  [sessions |-> e.sessions, heap |-> h2, session |-> g.session,
                  err |-> ErrNone,
                  ret |-> <<h2[g.session].LotteryResults[Len(h2[g.session].LotteryResults)]>>]

\* Mutation: the first eligible participant always wins.
Draw_FirstEligible(st, h, live, tenantID, prizeName, winnerIndex, t) ==
    LET g == getSession(st, h, live, tenantID, t)
        e == GetEligibleParticipants(g.sessions, g.heap, live \cup {g.session},
                                     tenantID, prizeName, t)
    IN  IF e.err # ErrNone
        THEN [sessions |-> e.sessions, heap |-> e.heap, session |-> g.session,
              err |-> e.err, ret |-> <<>>]
        ELSE LET winner == e.ret[1]
                 h2 == Commit(e.heap, g.session, prizeName, winner)
             IN  [sessions |-> e.sessions, heap |-> h2, session |-> g.session,
                  err |-> ErrNone,
                  ret |-> <<h2[g.session].LotteryResults[Len(h2[g.session].LotteryResults)]>>]

\* Draw with the random index winnerIndex (used only when the draw succeeds).
Draw(st, h, live, tenantID, prizeName, winnerIndex, t) ==
    LET g == getSession(st, h, live, tenantID, t)
        e == GetEligibleParticipants(g.sessions, g.heap, live \cup {g.session},
                                     tenantID, prizeName, t)
    IN  IF e.err # ErrNone
        THEN [sessions |-> e.sessions, heap |-> e.heap, session |-> g.session,
              err |-> e.err, ret |-> <<>>]
        ELSE LET winner == e.ret[winnerIndex]
                 h2 == Commit(e.heap, g.session, prizeName, winner)
             IN  [sessions |-> e.sessions, heap |-> h2, session |-> g.session,
                  err |-> ErrNone,
                  ret |-> <<h2[g.session].LotteryResults[Len(h2[g.session].LotteryResults)]>>]

\* Mutation: a session idle for exactly one hour is expired too.
Expired_AtOneHour(session, t) == t - session.LastActivity >= Hour

\* ---------------------------------------------------------------- removal
Expired(session, t) == t - session.LastActivity > Hour

CleanUpInactiveSessions(st, h, t) ==
    [tenantID \in Tenants |->
        IF st[tenantID] # Nil /\ Expired(h[st[tenantID]], t) THEN Nil ELSE st[tenantID]]

\* Mutation: the store is emptied.
ClearSession_All(st, tenantID) == [t \in Tenants |-> Nil]

ClearSession(st, tenantID) == [st EXCEPT ![tenantID] = Nil]

Idle == [pc |-> "idle", tenantID |-> "", arg |-> <<>>, session |-> Nil, hdr |-> <<>>]

Init ==
    /\ procs = [r \in Procs |-> Idle]
    /\ sessions = [t \in Tenants |-> Nil]
    /\ heap = [o \in ObjIds |-> NewSession]
    /\ now = 0
    /\ last = Call("NewLotteryService", "", <<>>, ErrNone, Nil, <<>>)

Tick ==
    /\ now < MaxTime
    /\ now' = now + 1
    /\ UNCHANGED <<sessions, heap, last, procs>>

GetSessionCall(tenantID) ==
    /\ CanGetSession(sessions, Live(sessions, procs), tenantID)
    /\ LET g == getSession(sessions, heap, Live(sessions, procs), tenantID, now)
       IN  /\ sessions' = g.sessions
           /\ heap' = g.heap
           /\ last' = Call("getSession", tenantID, <<>>, ErrNone, g.session, <<>>)
    /\ UNCHANGED <<now, procs>>

GetPrizesCall(tenantID) ==
    /\ CanGetSession(sessions, Live(sessions, procs), tenantID)
    /\ LET g == GetPrizes(sessions, heap, Live(sessions, procs), tenantID, now)
       IN  /\ sessions' = g.sessions
           /\ heap' = g.heap
           /\ last' = Call("GetPrizes", tenantID, <<>>, ErrNone, g.session, g.ret)
    /\ UNCHANGED <<now, procs>>

GetParticipantsCall(tenantID) ==
    /\ CanGetSession(sessions, Live(sessions, procs), tenantID)
    /\ LET g == GetParticipants(sessions, heap, Live(sessions, procs), tenantID, now)
       IN  /\ sessions' = g.sessions
           /\ heap' = g.heap
           /\ last' = Call("GetParticipants", tenantID, <<>>, ErrNone, g.session, g.ret)
    /\ UNCHANGED <<now, procs>>

GetLotteryResultsCall(tenantID) ==
    /\ CanGetSession(sessions, Live(sessions, procs), tenantID)
    /\ LET g == GetLotteryResults(sessions, heap, Live(sessions, procs), tenantID, now)
       IN  /\ sessions' = g.sessions
           /\ heap' = g.heap
           /\ last' = Call("GetLotteryResults", tenantID, <<>>, ErrNone, g.session, g.ret)
    /\ UNCHANGED <<now, procs>>

GetEligibleParticipantsCall(tenantID, prizeName) ==
    /\ CanGetSession(sessions, Live(sessions, procs), tenantID)
    /\ LET e == GetEligibleParticipants(sessions, heap, Live(sessions, procs),
                                        tenantID, prizeName, now)
       IN  /\ sessions' = e.sessions
           /\ heap' = e.heap
           /\ last' = Call("GetEligibleParticipants", tenantID, <<prizeName>>,
                           e.err, e.session, e.ret)
    /\ UNCHANGED <<now, procs>>

AddPrizeCall(tenantID, p) ==
    /\ CanGetSession(sessions, Live(sessions, procs), tenantID)
    /\ sessions[tenantID] # Nil => Len(heap[sessions[tenantID]].Prizes) < MaxPrizes
    /\ LET g == AddPrize(sessions, heap, Live(sessions, procs), tenantID,
                         p.Name, p.Item, p.Quantity, p.DrawFromAll, now)
       IN  /\ sessions' = g.sessions
           /\ heap' = g.heap
           /\ last' = Call("AddPrize", tenantID, <<p>>, ErrNone, g.session, <<>>)
    /\ UNCHANGED <<now, procs>>

AddParticipantCall(tenantID, p) ==
    /\ CanGetSession(sessions, Live(sessions, procs), tenantID)
    /\ LET g == AddParticipant(sessions, heap, Live(sessions, procs), tenantID, p.ID, p.Name, now)
       IN  /\ sessions' = g.sessions
           /\ heap' = g.heap
           /\ last' = Call("AddParticipant", tenantID, <<p>>, ErrNone, g.session, <<>>)
    /\ UNCHANGED <<now, procs>>

DrawCall(tenantID, prizeName) ==
    /\ CanGetSession(sessions, Live(sessions, procs), tenantID)
    /\ LET e == GetEligibleParticipants(sessions, heap, Live(sessions, procs),
                                        tenantID, prizeName, now)
       IN  \E winnerIndex \in 1..(IF e.err = ErrNone THEN Len(e.ret) ELSE 1) :
              LET d == Draw(sessions, heap, Live(sessions, procs), tenantID,
                            prizeName, winnerIndex, now)
              IN  /\ sessions' = d.sessions
                  /\ heap' = d.heap
                  /\ last' = Call("Draw", tenantID, <<prizeName>>, d.err, d.session, d.ret)
    /\ UNCHANGED <<now, procs>>

CleanUpInactiveSessionsCall ==
    /\ LET st == CleanUpInactiveSessions(sessions, heap, now)
       IN  /\ sessions' = st
           /\ heap' = Collect(heap, Live(st, procs))
           \* ret: the tenant IDs the sweep logs as removed
           /\ last' = Call("CleanUpInactiveSessions", "", <<>>, ErrNone, Nil,
                           {tenantID \in Tenants : st[tenantID] # sessions[tenantID]})
    /\ UNCHANGED <<now, procs>>

ClearSessionCall(tenantID) ==
    /\ LET st == ClearSession(sessions, tenantID)
       IN  /\ sessions' = st
           /\ heap' = Collect(heap, Live(st, procs))
    \* session: the session the call removed, Nil when there was none
    /\ last' = Call("ClearSession", tenantID, <<>>, ErrNone, sessions[tenantID], <<>>)
    /\ UNCHANGED <<now, procs>>

\* ---------------------------------------------------------------- inputs
\* The store specification gives every tenant its own prize and participant,
\* so a datum that crossed from one session to another is recognisable.
TenantPrizes(tenantID) ==
    IF tenantID = "t1" THEN {Prize("A", "x", 1, FALSE)} ELSE {Prize("B", "y", 1, TRUE)}

TenantParticipants(tenantID) ==
    IF tenantID = "t1" THEN {Participant("1", "Alice")} ELSE {Participant("2", "Bob")}

\* The draw specification works on one tenant with these inputs.
DrawTenants == {"t1"}

PrizeInputs ==
    {Prize("A", "x", 1, FALSE), Prize("A", "y", 2, TRUE),
     Prize("B", "x", 2, FALSE), Prize("B", "y", 2, TRUE),
     Prize("B", "x", 0, FALSE), Prize("A", "y", 0 - 1, TRUE)}

ParticipantInputs ==
    {Participant("1", "Alice"), Participant("1", "Bob"), Participant("2", "Bob")}

\* Store specification: two tenants, the clock and the sweep.
Next ==
    \/ Tick
    \/ CleanUpInactiveSessionsCall
    \/ \E tenantID \in Tenants :
          \/ GetSessionCall(tenantID)
          \/ GetPrizesCall(tenantID)
          \/ GetParticipantsCall(tenantID)
          \/ GetLotteryResultsCall(tenantID)
          \/ ClearSessionCall(tenantID)
          \/ \E p \in TenantPrizes(tenantID) : AddPrizeCall(tenantID, p)
          \/ \E p \in TenantParticipants(tenantID) : AddParticipantCall(tenantID, p)
          \/ \E prizeName \in PrizeNames : DrawCall(tenantID, prizeName)
          \/ \E p \in TenantPrizes(tenantID) : GetEligibleParticipantsCall(tenantID, p.Name)

Spec == Init /\ [][Next]_vars

\* Draw specification: one tenant, every kind of prize.
DrawNext ==
    \E tenantID \in DrawTenants :
       \/ GetPrizesCall(tenantID)
       \/ GetParticipantsCall(tenantID)
       \/ GetLotteryResultsCall(tenantID)
       \/ ClearSessionCall(tenantID)
       \/ \E p \in PrizeInputs : AddPrizeCall(tenantID, p)
       \/ \E p \in ParticipantInputs : AddParticipantCall(tenantID, p)
       \/ \E prizeName \in PrizeNames : DrawCall(tenantID, prizeName)

DrawSpec == Init /\ [][DrawNext]_vars

\* ------------------------------------------------ concurrent requests
\* AddParticipant of request r, one step per access to shared memory.
\* getSession runs under the store lock and is one step.
AddParticipantBegin(r, tenantID, p) ==
    /\ procs[r].pc = "idle"
    /\ CanGetSession(sessions, Live(sessions, procs), tenantID)
    /\ LET g == getSession(sessions, heap, Live(sessions, procs), tenantID, now)
       IN  /\ sessions' = g.sessions
           /\ heap' = g.heap
           /\ procs' = [procs EXCEPT ![r] = [pc |-> "scan", tenantID |-> tenantID,
                                             arg |-> <<p>>, session |-> g.session,
                                             hdr |-> <<>>]]
    /\ UNCHANGED <<now, last>>

\* The range loop over session.Participants: return when the id is found.
AddParticipantScan(r) ==
    /\ procs[r].pc = "scan"
    /\ IF HasParticipant(heap[procs[r].session].Participants, procs[r].arg[1].ID)
       THEN /\ procs' = [procs EXCEPT ![r] = Idle]
            /\ heap' = Collect(heap, Live(sessions, procs'))
       ELSE /\ procs' = [procs EXCEPT ![r].pc = "read"]
            /\ heap' = heap
    /\ UNCHANGED <<sessions, now, last>>

\* append() reads the slice.
AddParticipantRead(r) ==
    /\ procs[r].pc = "read"
    /\ procs' = [procs EXCEPT ![r].pc = "write",
                              ![r].hdr = heap[procs[r].session].Participants]
    /\ UNCHANGED <<sessions, heap, now, last>>

\* The appended slice is assigned to session.Participants.
AddParticipantWrite(r) ==
    /\ procs[r].pc = "write"
    /\ procs' = [procs EXCEPT ![r] = Idle]
    /\ heap' = Collect(WriteParticipants(heap, procs[r].session, procs[r].hdr,
                                         procs[r].arg[1]),
                       Live(sessions, procs'))
    /\ UNCHANGED <<sessions, now, last>>

\* The participants the concurrent requests add: one ID under two names.
ConcParticipants == {Participant("1", "Alice"), Participant("1", "Bob")}

\* Concurrent specification: requests of one tenant interleave.
ConcNext ==
    \/ \E tenantID \in DrawTenants : ClearSessionCall(tenantID)
    \/ \E r \in Procs :
          \/ \E tenantID \in DrawTenants, p \in ConcParticipants :
                AddParticipantBegin(r, tenantID, p)
          \/ AddParticipantScan(r)
          \/ AddParticipantRead(r)
          \/ AddParticipantWrite(r)

ConcSpec == Init /\ [][ConcNext]_vars

\* Draw of request r, one step per access to shared memory. The store lock
\* covers getSession only; everything else of Draw runs without a lock.
ErrPanic == "nil pointer dereference"

\* Draw's own getSession.
DrawBegin(r, tenantID, prizeName) ==
    /\ procs[r].pc = "idle"
    /\ CanGetSession(sessions, Live(sessions, procs), tenantID)
    /\ LET g == getSession(sessions, heap, Live(sessions, procs), tenantID, now)
       IN  /\ sessions' = g.sessions
           /\ heap' = g.heap
           /\ procs' = [procs EXCEPT ![r] = [pc |-> "eligible", tenantID |-> tenantID,
                                             arg |-> <<prizeName>>, session |-> g.session,
                                             hdr |-> <<>>, winner |-> <<>>,
                                             target |-> 0, quantity |-> 0]]
    /\ UNCHANGED <<now, last>>

\* The call of GetEligibleParticipants: it looks the session up again and
\* reads it; on an error Draw returns. The index rand.Intn returns is chosen
\* here, it depends on the length of the list only.
DrawEligible(r) ==
    /\ procs[r].pc = "eligible"
    /\ CanGetSession(sessions, Live(sessions, procs), procs[r].tenantID)
    /\ LET e == GetEligibleParticipants(sessions, heap, Live(sessions, procs),
                                        procs[r].tenantID, procs[r].arg[1], now)
       IN  /\ sessions' = e.sessions
           /\ IF e.err # ErrNone
              THEN /\ procs' = [procs EXCEPT ![r] = Idle]
                   /\ heap' = Collect(e.heap, Live(e.sessions, procs'))
                   /\ last' = Call("Draw", procs[r].tenantID, procs[r].arg, e.err,
                                   procs[r].session, <<>>)
              ELSE \E winnerIndex \in 1..Len(e.ret) :
                      /\ procs' = [procs EXCEPT ![r].pc = "find",
                                                ![r].winner = <<e.ret[winnerIndex]>>]
                      /\ heap' = e.heap
                      /\ last' = last
    /\ UNCHANGED now

\* The loop that looks targetPrize up in the session Draw holds.
DrawFind(r) ==
    /\ procs[r].pc = "find"
    /\ procs' = [procs EXCEPT ![r].pc = "take",
                              ![r].target = FindPrize(heap[procs[r].session].Prizes,
                                                      procs[r].arg[1])]
    /\ UNCHANGED <<sessions, heap, now, last>>

\* targetPrize.Quantity-- reads the quantity; a nil targetPrize panics and
\* the request ends.
DrawTakeRead(r) ==
    /\ procs[r].pc = "take"
    /\ IF procs[r].target = 0
       THEN /\ procs' = [procs EXCEPT ![r] = Idle]
            /\ heap' = Collect(heap, Live(sessions, procs'))
            /\ last' = Call("Draw", procs[r].tenantID, procs[r].arg, ErrPanic,
                            procs[r].session, <<>>)
       ELSE /\ procs' = [procs EXCEPT ![r].pc = "put",
                                      ![r].quantity =
                                          heap[procs[r].session].Prizes[procs[r].target].Quantity]
            /\ UNCHANGED <<heap, last>>
    /\ UNCHANGED <<sessions, now>>

\* targetPrize.Quantity-- writes the quantity it read, less one.
DrawTakeWrite(r) ==
    /\ procs[r].pc = "put"
    /\ heap' = [heap EXCEPT ![procs[r].session].Prizes[procs[r].target].Quantity =
                                procs[r].quantity - 1]
    /\ procs' = [procs EXCEPT ![r].pc = "win"]
    /\ UNCHANGED <<sessions, now, last>>

\* session.Winners[winner.ID][prizeName] = true
DrawRecordWin(r) ==
    /\ procs[r].pc = "win"
    /\ heap' = [heap EXCEPT ![procs[r].session].Winners[procs[r].winner[1].ID] =
                                @ \cup {procs[r].arg[1]}]
    /\ procs' = [procs EXCEPT ![r].pc = "read"]
    /\ UNCHANGED <<sessions, now, last>>

\* append() reads session.LotteryResults.
DrawAppendRead(r) ==
    /\ procs[r].pc = "read"
    /\ procs' = [procs EXCEPT ![r].pc = "write",
                              ![r].hdr = heap[procs[r].session].LotteryResults]
    /\ UNCHANGED <<sessions, heap, now, last>>

\* The appended slice is assigned to session.LotteryResults; Draw returns.
DrawAppendWrite(r) ==
    /\ procs[r].pc = "write"
    /\ LET session == procs[r].session
           result == LotteryResult(heap[session].Prizes[procs[r].target],
                                   procs[r].winner[1])
       IN  /\ procs' = [procs EXCEPT ![r] = Idle]
           /\ heap' = Collect([heap EXCEPT ![session].LotteryResults =
                                               Append(procs[r].hdr, result)],
                              Live(sessions, procs'))
           /\ last' = Call("Draw", procs[r].tenantID, procs[r].arg, ErrNone,
                           session, <<result>>)
    /\ UNCHANGED <<sessions, now>>

\* The inputs of the concurrent draws: the item tells the prizes apart.
ConcPrizes ==
    {Prize("A", "x", 1, FALSE), Prize("A", "y", 2, FALSE), Prize("A", "z", 2, TRUE)}

ConcDrawParticipants == {Participant("1", "Alice"), Participant("2", "Bob")}

\* Concurrent draw specification: Draw requests of one tenant interleave
\* with each other and with the other calls.
ConcDrawNext ==
    \/ \E tenantID \in DrawTenants :
          \/ \E p \in ConcPrizes : AddPrizeCall(tenantID, p)
          \/ \E p \in ConcDrawParticipants : AddParticipantCall(tenantID, p)
    \/ \E r \in Procs :
          \/ \E tenantID \in DrawTenants, prizeName \in {"A"} :
                DrawBegin(r, tenantID, prizeName)
          \/ DrawEligible(r)
          \/ DrawFind(r)
          \/ DrawTakeRead(r)
          \/ DrawTakeWrite(r)
          \/ DrawRecordWin(r)
          \/ DrawAppendRead(r)
          \/ DrawAppendWrite(r)

ConcDrawSpec == Init /\ [][ConcDrawNext]_vars

\* Removal specification: the Draw of one request runs step by step while
\* other requests clear the tenant's session and build a new one.
DrawingRequest == "r1"

\* One prize name under two items: the old and the new session can hold
\* different prizes of the same name.
ClearDrawPrizes == {Prize("A", "x", 1, FALSE), Prize("A", "y", 1, FALSE)}

ClearDrawNext ==
    \/ \E tenantID \in DrawTenants :
          \/ ClearSessionCall(tenantID)
          \/ \E p \in ClearDrawPrizes : AddPrizeCall(tenantID, p)
          \/ \E p \in ConcDrawParticipants : AddParticipantCall(tenantID, p)
          \/ \E prizeName \in {"A"} : DrawBegin(DrawingRequest, tenantID, prizeName)
    \/ DrawEligible(DrawingRequest)
    \/ DrawFind(DrawingRequest)
    \/ DrawTakeRead(DrawingRequest)
    \/ DrawTakeWrite(DrawingRequest)
    \/ DrawRecordWin(DrawingRequest)
    \/ DrawAppendRead(DrawingRequest)
    \/ DrawAppendWrite(DrawingRequest)

ClearDrawSpec == Init /\ [][ClearDrawNext]_vars

\* ------------------------------------------------------- the store mutex
\* getSession, ClearSession and CleanUpInactiveSessions at the level of the
\* mutex: a request waits at s.mu.Lock(), runs its critical section step by
\* step and unlocks when it returns (defer s.mu.Unlock()).
CriticalPcs == {"getSession.lookup", "getSession.touch", "ClearSession.delete",
                "CleanUp.range"}

\* The requests that hold s.mu.
MutexHolders(pr) == {r \in Procs : pr[r].pc \in CriticalPcs}

\* Mutation: s.mu.Lock() returns at once.
CanLock_NoWait(pr) == TRUE

\* s.mu.Lock() returns when no request holds the mutex.
CanLock(pr) == MutexHolders(pr) = {}

\* A request calls getSession and arrives at s.mu.Lock().
GetSessionEnter(r, tenantID) ==
    /\ procs[r].pc = "idle"
    /\ procs' = [procs EXCEPT ![r] = [Idle EXCEPT !.pc = "getSession.lock",
                                                  !.tenantID = tenantID]]
    /\ UNCHANGED <<sessions, heap, now, last>>

GetSessionLock(r) ==
    /\ procs[r].pc = "getSession.lock"
    /\ CanLock(procs)
    /\ procs' = [procs EXCEPT ![r].pc = "getSession.lookup"]
    /\ UNCHANGED <<sessions, heap, now, last>>

\* The lookup, and the creation of the session when there is none; the new
\* session has the zero LastActivity until the next statement.
GetSessionLookup(r) ==
    /\ procs[r].pc = "getSession.lookup"
    /\ CanGetSession(sessions, Live(sessions, procs), procs[r].tenantID)
    /\ LET tenantID == procs[r].tenantID
           exists == sessions[tenantID] # Nil
           session == IF exists THEN sessions[tenantID] ELSE Alloc(Live(sessions, procs))
       IN  /\ sessions' = [sessions EXCEPT ![tenantID] = session]
           /\ heap' = IF exists THEN heap ELSE [heap EXCEPT ![session] = NewSession]
           /\ procs' = [procs EXCEPT ![r].pc = "getSession.touch",
                                     ![r].session = session]
    /\ UNCHANGED <<now, last>>

\* session.LastActivity = time.Now(), unlock and return.
GetSessionTouch(r) ==
    /\ procs[r].pc = "getSession.touch"
    /\ procs' = [procs EXCEPT ![r] = Idle]
    /\ heap' = Collect([heap EXCEPT ![procs[r].session].LastActivity = now],
                       Live(sessions, procs'))
    /\ UNCHANGED <<sessions, now, last>>

ClearSessionEnter(r, tenantID) ==
    /\ procs[r].pc = "idle"
    /\ procs' = [procs EXCEPT ![r] = [Idle EXCEPT !.pc = "ClearSession.lock",
                                                  !.tenantID = tenantID]]
    /\ UNCHANGED <<sessions, heap, now, last>>

ClearSessionLock(r) ==
    /\ procs[r].pc = "ClearSession.lock"
    /\ CanLock(procs)
    /\ procs' = [procs EXCEPT ![r].pc = "ClearSession.delete"]
    /\ UNCHANGED <<sessions, heap, now, last>>

\* delete(s.sessions, tenantID), unlock and return.
ClearSessionDelete(r) ==
    /\ procs[r].pc = "ClearSession.delete"
    /\ procs' = [procs EXCEPT ![r] = Idle]
    /\ sessions' = ClearSession(sessions, procs[r].tenantID)
    /\ heap' = Collect(heap, Live(sessions', procs'))
    /\ UNCHANGED <<now, last>>

CleanUpEnter(r) ==
    /\ procs[r].pc = "idle"
    /\ procs' = [procs EXCEPT ![r] = [Idle EXCEPT !.pc = "CleanUp.lock"]]
    /\ UNCHANGED <<sessions, heap, now, last>>

\* The lock is taken and the range loop starts: todo holds the entries of
\* the map the loop has not come to yet.
CleanUpLock(r) ==
    /\ procs[r].pc = "CleanUp.lock"
    /\ CanLock(procs)
    /\ procs' = [procs EXCEPT ![r] =
                    [pc |-> "CleanUp.range", tenantID |-> "", arg |-> <<>>,
                     session |-> Nil, hdr |-> <<>>,
                     todo |-> {t \in Tenants : sessions[t] # Nil}]]
    /\ UNCHANGED <<sessions, heap, now, last>>

\* One iteration of the loop, in the order the map gives: the entry is
\* deleted when it is expired at the time of the test.
CleanUpExamine(r) ==
    /\ procs[r].pc = "CleanUp.range"
    /\ \E tenantID \in procs[r].todo :
          /\ procs' = [procs EXCEPT ![r].todo = @ \ {tenantID}]
          /\ sessions' = IF sessions[tenantID] # Nil /\ Expired(heap[sessions[tenantID]], now)
                         THEN [sessions EXCEPT ![tenantID] = Nil]
                         ELSE sessions
          /\ heap' = Collect(heap, Live(sessions', procs'))
    /\ UNCHANGED <<now, last>>

\* The loop is over: unlock and return.
CleanUpReturn(r) ==
    /\ procs[r].pc = "CleanUp.range"
    /\ procs[r].todo = {}
    /\ procs' = [procs EXCEPT ![r] = Idle]
    /\ UNCHANGED <<sessions, heap, now, last>>

\* Mutex specification: requests and the janitor meet at the store mutex
\* while the clock runs.
LockNext ==
    \/ Tick
    \/ \E r \in Procs :
          \/ \E tenantID \in Tenants : GetSessionEnter(r, tenantID)
          \/ GetSessionLock(r)
          \/ GetSessionLookup(r)
          \/ GetSessionTouch(r)
          \/ \E tenantID \in Tenants : ClearSessionEnter(r, tenantID)
          \/ ClearSessionLock(r)
          \/ ClearSessionDelete(r)
          \/ CleanUpEnter(r)
          \/ CleanUpLock(r)
          \/ CleanUpExamine(r)
          \/ CleanUpReturn(r)

LockSpec == Init /\ [][LockNext]_vars

\* --------------------------------------------- requests under fair scheduling
FairPrizes == {Prize("A", "x", 1, FALSE)}

FairParticipants == {Participant("1", "Alice")}

\* The accesses of two running Draw calls to the Winners maps of one session
\* conflict when one of them assigns the winner's entry of the outer map
\* (the winner has no entry yet) while the other reads or assigns it, or
\* when both assign to the inner map of the same winner.
MapAccessConflict(session, a, b) ==
    \/ session.Winners[a.ID] = {}
    \/ session.Winners[b.ID] = {}
    \/ a.ID = b.ID

\* Two requests are at the statements of Draw that record the win in the
\* same session, without a lock: the runtime may find the map being written
\* by both and end the process with a fatal error that nothing recovers, so
\* that no request in flight returns.
ConcurrentMapWrites ==
    /\ \E a \in Procs, b \in Procs :
          /\ a # b
          /\ procs[a].pc = "win"
          /\ procs[b].pc = "win"
          /\ procs[a].session = procs[b].session
          /\ MapAccessConflict(heap[procs[a].session],
                               procs[a].winner[1], procs[b].winner[1])
    /\ procs' = [r \in Procs |-> IF procs[r].pc = "idle" THEN procs[r]
                                 ELSE [procs[r] EXCEPT !.pc = "fatal"]]
    /\ UNCHANGED <<sessions, heap, now, last>>

\* The steps of request r after its call has begun; the steps that call
\* getSession wait for the mutex.
FairStep(r) ==
    \/ GetSessionLock(r)
    \/ GetSessionLookup(r)
    \/ GetSessionTouch(r)
    \/ ClearSessionLock(r)
    \/ ClearSessionDelete(r)
    \/ CleanUpLock(r)
    \/ CleanUpExamine(r)
    \/ CleanUpReturn(r)
    \/ CanLock(procs) /\ DrawEligible(r)
    \/ DrawFind(r)
    \/ DrawTakeRead(r)
    \/ DrawTakeWrite(r)
    \/ DrawRecordWin(r)
    \/ DrawAppendRead(r)
    \/ DrawAppendWrite(r)

\* The calls that arrive.
FairCall(r) ==
    \E tenantID \in DrawTenants :
        \/ GetSessionEnter(r, tenantID)
        \/ ClearSessionEnter(r, tenantID)
        \/ CleanUpEnter(r)
        \/ \E p \in FairPrizes : CanLock(procs) /\ AddPrizeCall(tenantID, p)
        \/ \E p \in FairParticipants : CanLock(procs) /\ AddParticipantCall(tenantID, p)
        \/ \E prizeName \in {"A"} : CanLock(procs) /\ DrawBegin(r, tenantID, prizeName)

FairNext ==
    \/ \E r \in Procs : FairCall(r) \/ FairStep(r)
    \/ ConcurrentMapWrites

\* Fair specification: every request that can take a step takes one, and a
\* request that waits for the mutex gets it when it is free again and again
\* (sync.Mutex hands the lock to a waiter that has waited long enough).
FairSpec == Init /\ [][FairNext]_vars /\ \A r \in Procs : SF_vars(FairStep(r))

\* ====================================================================
\* Properties
\* ====================================================================
\* What a tenant sees of its session: an absent session reads as empty.
SessionOf(st, h, tenantID) == IF st[tenantID] = Nil THEN NewSession ELSE h[st[tenantID]]

Data(s) ==
    [Prizes |-> s.Prizes, Participants |-> s.Participants,
     Winners |-> s.Winners, LotteryResults |-> s.LotteryResults]

\* The step is a call of op (the clock does not move during a call).
IsCall(op) == now' = now /\ last'.op = op

GetSessionOps ==
    {"getSession", "GetPrizes", "GetParticipants", "GetLotteryResults",
     "AddPrize", "AddParticipant", "Draw", "GetEligibleParticipants"}

TenantOps == GetSessionOps \cup {"ClearSession"}

\* The first prize with this name, stated without the lookup loop.
Target(prizes, prizeName) ==
    LET hits == {i \in 1..Len(prizes) : prizes[i].Name = prizeName}
    IN  IF hits = {} THEN 0 ELSE CHOOSE i \in hits : \A j \in hits : i <= j

\* ------------------------------------------------------------------ C1
OwnPrize(tenantID, p) ==
    \E q \in TenantPrizes(tenantID) :
        p.Name = q.Name /\ p.Item = q.Item /\ p.DrawFromAll = q.DrawFromAll

OwnResult(tenantID, r) ==
    \E q \in TenantPrizes(tenantID), w \in TenantParticipants(tenantID) :
        r = LotteryResult(q, w)

ReturnedOwn(c) ==
    CASE c.op = "GetPrizes" -> \A i \in 1..Len(c.ret) : OwnPrize(c.tenantID, c.ret[i])
      [] c.op = "GetParticipants" ->
            \A i \in 1..Len(c.ret) : c.ret[i] \in TenantParticipants(c.tenantID)
      [] c.op \in {"GetLotteryResults", "Draw"} ->
            \A i \in 1..Len(c.ret) : OwnResult(c.tenantID, c.ret[i])
      [] OTHER -> TRUE

IsolationStep ==
    \A a \in Tenants, b \in Tenants :
        (a # b /\ now' = now /\ last'.op \in TenantOps /\ last'.tenantID = a) =>
            /\ sessions'[b] = sessions[b]
            /\ sessions[b] # Nil => heap'[sessions[b]] = heap[sessions[b]]
            /\ ReturnedOwn(last')

\* C1: a call issued for tenant A leaves the session of every other tenant B
\* (prizes and quantities, participants, win records, result log) unchanged,
\* and what it returns holds only data that was added under A.
C1_TenantIsolation == [][IsolationStep]_vars

\* Both tenants have drawn, and the last call was a successful draw of one.
C1_Witness ==
    /\ last.op = "Draw" /\ last.err = ErrNone
    /\ \A t \in Tenants :
          /\ sessions[t] # Nil
          /\ Len(heap[sessions[t]].LotteryResults) > 0

\* ------------------------------------------------------------------ C2
DrawSucceeded == IsCall("Draw") /\ last'.err = ErrNone

DrawEffect ==
    DrawSucceeded =>
        LET pre == SessionOf(sessions, heap, last'.tenantID)
            post == SessionOf(sessions', heap', last'.tenantID)
            i == Target(pre.Prizes, last'.arg[1])
        IN  /\ i > 0
            /\ Len(post.Prizes) = Len(pre.Prizes)
            /\ post.Prizes[i].Quantity = pre.Prizes[i].Quantity - 1
            /\ \A j \in 1..Len(pre.Prizes) :
                  j # i => post.Prizes[j].Quantity = pre.Prizes[j].Quantity
            /\ Len(post.LotteryResults) = Len(pre.LotteryResults) + 1
            /\ post.Participants = pre.Participants

\* C2: a successful Draw takes exactly 1 from the quantity of the prize it
\* targets, adds exactly one entry to the result log, and changes neither the
\* quantity of another prize nor the participant list.
C2_DrawDecrements == [][DrawEffect]_vars

\* A draw succeeded in a session that holds another prize as well.
C2_Witness ==
    /\ last.op = "Draw" /\ last.err = ErrNone
    /\ Len(heap[last.session].Prizes) >= 2
    /\ Len(heap[last.session].Participants) >= 2

\* ------------------------------------------------------------------ C3
DrawOnEmptyPrize ==
    IsCall("Draw") =>
        LET pre == SessionOf(sessions, heap, last'.tenantID)
            post == SessionOf(sessions', heap', last'.tenantID)
            i == Target(pre.Prizes, last'.arg[1])
        IN  (i > 0 /\ pre.Prizes[i].Quantity = 0) =>
                /\ last'.err = ErrPrizeExhausted
                /\ Data(post) = Data(pre)

\* C3: a Draw whose target prize has quantity 0 fails with PrizeExhausted,
\* whatever the participants and their win records are, and changes nothing
\* of the session's data.
C3_ExhaustedFails == [][DrawOnEmptyPrize]_vars

\* The prize was drawn down to 0, a participant with no win is present, and
\* the draw failed with PrizeExhausted.
C3_Witness ==
    /\ last.op = "Draw" /\ last.err = ErrPrizeExhausted
    /\ LET s == heap[last.session]
       IN  /\ \E k \in 1..Len(s.LotteryResults) :
                 s.LotteryResults[k].PrizeName = last.arg[1]
           /\ \E k \in 1..Len(s.Participants) : s.Winners[s.Participants[k].ID] = {}

\* ------------------------------------------------------------- C4, C5
\* The eligibility rule as the specification words it.
MayWin(s, prize, id) ==
    IF prize.DrawFromAll THEN prize.Name \notin s.Winners[id] ELSE s.Winners[id] = {}

AllHaveWon(s) ==
    /\ Len(s.Participants) > 0
    /\ \A k \in 1..Len(s.Participants) : s.Winners[s.Participants[k].ID] # {}

AllHaveWonPrize(s, prizeName) ==
    /\ Len(s.Participants) > 0
    /\ \A k \in 1..Len(s.Participants) : prizeName \in s.Winners[s.Participants[k].ID]

\* The results a participant holds for prizes that are not drawFromAll.
ExclusiveWins(s, id) ==
    {k \in 1..Len(s.LotteryResults) :
        /\ s.LotteryResults[k].WinnerID = id
        /\ ~s.Prizes[Target(s.Prizes, s.LotteryResults[k].PrizeName)].DrawFromAll}

AtMostOneExclusiveWin ==
    \A t \in Tenants : \A id \in ParticipantIDs :
        Cardinality(ExclusiveWins(SessionOf(sessions, heap, t), id)) <= 1

\* needStock: whether the last clause is restricted to a prize with stock.
ExclusiveDrawStep(needStock) ==
    IsCall("Draw") =>
        LET pre == SessionOf(sessions, heap, last'.tenantID)
            i == Target(pre.Prizes, last'.arg[1])
        IN  (i > 0 /\ ~pre.Prizes[i].DrawFromAll) =>
                /\ last'.err = ErrNone => pre.Winners[last'.ret[1].WinnerID] = {}
                /\ (AllHaveWon(pre) /\ (needStock => pre.Prizes[i].Quantity > 0)) =>
                        last'.err = ErrNoEligibleParticipants

\* C4 as claimed: for a prize that is not drawFromAll the winner had an empty
\* win record, nobody holds two such prizes, and whenever every participant
\* has already won something the draw fails with NoEligibleParticipants.
C4_Original == [][ExclusiveDrawStep(FALSE) /\ AtMostOneExclusiveWin']_vars

\* C4 (amended): for a prize that is not drawFromAll the winner had an empty
\* win record, nobody holds two such prizes, and when the prize has stock and
\* every participant has already won something the draw fails with
\* NoEligibleParticipants (without stock it fails with PrizeExhausted).
C4_ExclusiveRule == [][ExclusiveDrawStep(TRUE) /\ AtMostOneExclusiveWin']_vars

\* A draw of a stocked prize that is not drawFromAll failed for lack of
\* eligible participants, one of whom had won a drawFromAll prize only.
C4_Witness ==
    /\ last.op = "Draw" /\ last.err = ErrNoEligibleParticipants
    /\ LET s == heap[last.session]
           i == Target(s.Prizes, last.arg[1])
       IN  /\ ~s.Prizes[i].DrawFromAll
           /\ \E id \in ParticipantIDs :
                 /\ s.Winners[id] # {}
                 /\ ExclusiveWins(s, id) = {}

\* The eligible list of a stocked drawFromAll prize is the participants whose
\* win record lacks the prize's name, in list order.
FromAllEligibility ==
    \A t \in Tenants : \A prizeName \in PrizeNames :
        LET s == SessionOf(sessions, heap, t)
            i == Target(s.Prizes, prizeName)
            e == GetEligibleParticipants(sessions, heap, Live(sessions, procs), t, prizeName, now)
        IN  (i > 0 /\ s.Prizes[i].DrawFromAll /\ s.Prizes[i].Quantity > 0) =>
                e.ret = SelectSeq(s.Participants, LAMBDA p : prizeName \notin s.Winners[p.ID])

FromAllDrawStep(needStock) ==
    IsCall("Draw") =>
        LET pre == SessionOf(sessions, heap, last'.tenantID)
            i == Target(pre.Prizes, last'.arg[1])
        IN  (i > 0 /\ pre.Prizes[i].DrawFromAll) =>
                /\ last'.err = ErrNone =>
                        last'.arg[1] \notin pre.Winners[last'.ret[1].WinnerID]
                /\ (AllHaveWonPrize(pre, last'.arg[1])
                        /\ (needStock => pre.Prizes[i].Quantity > 0)) =>
                        last'.err = ErrNoEligibleParticipants

\* C5 as claimed: for a drawFromAll prize a participant is eligible exactly
\* when the win record lacks the prize's name, the winner never held the
\* name before, and whenever all participants have won it the draw fails with
\* NoEligibleParticipants.
C5_Original == [][FromAllDrawStep(FALSE) /\ FromAllEligibility]_vars

\* C5 (amended): as claimed, except that the draw fails with
\* NoEligibleParticipants when all participants have won the prize and the
\* prize still has stock (without stock it fails with PrizeExhausted).
C5_FromAllRule == [][FromAllDrawStep(TRUE) /\ FromAllEligibility]_vars

\* A drawFromAll prize went to a participant who had won another prize.
C5_Witness ==
    /\ last.op = "Draw" /\ last.err = ErrNone
    /\ LET s == heap[last.session]
           i == Target(s.Prizes, last.arg[1])
       IN  /\ s.Prizes[i].DrawFromAll
           /\ s.Winners[last.ret[1].WinnerID] \ {last.arg[1]} # {}

\* ------------------------------------------------------------------ C6
DrawErrors == {ErrPrizeNotFound, ErrPrizeExhausted, ErrNoEligibleParticipants}

Drawable(s, prizeName) ==
    LET i == Target(s.Prizes, prizeName)
    IN  /\ i > 0
        /\ s.Prizes[i].Quantity > 0
        /\ \E k \in 1..Len(s.Participants) : MayWin(s, s.Prizes[i], s.Participants[k].ID)

FailedDrawStep ==
    (IsCall("Draw") /\ last'.err # ErrNone) =>
        /\ last'.err \in DrawErrors
        /\ last'.ret = <<>>
        /\ Data(SessionOf(sessions', heap', last'.tenantID))
              = Data(SessionOf(sessions, heap, last'.tenantID))

\* The call before this step was a failed draw; this step draws another,
\* drawable prize of the same tenant.
DrawAfterFailure ==
    (/\ last.op = "Draw" /\ last.err \in DrawErrors
     /\ IsCall("Draw") /\ last'.tenantID = last.tenantID
     /\ last'.arg[1] # last.arg[1]
     /\ Drawable(SessionOf(sessions, heap, last.tenantID), last'.arg[1])) =>
        last'.err = ErrNone

\* C6: a Draw that fails (PrizeNotFound, PrizeExhausted, NoEligibleParticipants)
\* leaves prizes, quantities, participants, win records and result log as
\* they were, and a draw of another prize that has stock and an eligible
\* participant succeeds right after it.
C6_FailedDrawNoMutation == [][FailedDrawStep /\ DrawAfterFailure]_vars

\* A draw failed for lack of eligible participants while another prize of
\* the tenant is drawable.
C6_Witness ==
    /\ last.op = "Draw" /\ last.err = ErrNoEligibleParticipants
    /\ \E prizeName \in PrizeNames \ {last.arg[1]} :
          Drawable(heap[last.session], prizeName)

\* ------------------------------------------------------------------ C7
\* C7: the quantity of every prize of every session is at least 0.
C7_QuantityNonNegative ==
    \A t \in Tenants :
        LET s == SessionOf(sessions, heap, t)
        IN  \A i \in 1..Len(s.Prizes) : s.Prizes[i].Quantity >= 0

\* ------------------------------------------------------------------ C8
UniqueIDs(participants) ==
    \A i \in 1..Len(participants), j \in 1..Len(participants) :
        participants[i].ID = participants[j].ID => i = j

\* C8: no two entries of a session's participant list have the same ID, also
\* when AddParticipant calls on the same tenant interleave.
C8_UniqueParticipantIDs ==
    \A t \in Tenants : UniqueIDs(SessionOf(sessions, heap, t).Participants)

\* ------------------------------------------------------------------ C9
SweepStep ==
    IsCall("CleanUpInactiveSessions") =>
        \A t \in Tenants :
            IF sessions[t] = Nil
            THEN sessions'[t] = Nil
            ELSE IF now - heap[sessions[t]].LastActivity > Hour
                 THEN sessions'[t] = Nil
                 ELSE /\ sessions'[t] = sessions[t]
                      /\ heap'[sessions[t]] = heap[sessions[t]]

\* C9: the sweep removes every session idle for more than one hour, keeps
\* every session idle for one hour or less with its contents, and creates
\* no session.
C9_SweepExpiry == [][SweepStep]_vars

\* The sweep removed one tenant and kept the other, idle for exactly one
\* hour, with its prizes.
C9_Witness ==
    /\ last.op = "CleanUpInactiveSessions"
    /\ last.ret = {"t1"}
    /\ sessions["t2"] # Nil
    /\ now - heap[sessions["t2"]].LastActivity = Hour
    /\ Len(heap[sessions["t2"]].Prizes) > 0

\* ----------------------------------------------------------------- C10
OneSessionPerTenant ==
    \A a \in Tenants, b \in Tenants :
        (a # b /\ sessions[a] # Nil) => sessions[a] # sessions[b]

SameSessionStep ==
    (now' = now /\ last'.op \in GetSessionOps /\ sessions[last'.tenantID] # Nil) =>
        /\ sessions'[last'.tenantID] = sessions[last'.tenantID]
        /\ last'.session = sessions[last'.tenantID]
        /\ last'.op = "getSession" =>
              Data(heap'[last'.session]) = Data(heap[sessions[last'.tenantID]])
        /\ (last.op \in GetSessionOps /\ last.tenantID = last'.tenantID) =>
              last'.session = last.session

\* C10: an access for a tenant that has a session returns that session and
\* leaves it in the store: two consecutive accesses return the same session,
\* getSession shows the data added before it, and no two tenants share a
\* session.
C10_GetSessionIdempotent == [][SameSessionStep /\ OneSessionPerTenant']_vars

\* getSession returned a session that holds a prize, a participant and a
\* result added by earlier calls.
C10_Witness ==
    /\ last.op = "getSession"
    /\ Len(heap[last.session].Prizes) > 0
    /\ Len(heap[last.session].Participants) > 0
    /\ Len(heap[last.session].LotteryResults) > 0

\* ----------------------------------------------------------------- C12
WinsStep ==
    \A t \in Tenants :
        (sessions[t] # Nil /\ sessions'[t] = sessions[t]) =>
            LET pre == heap[sessions[t]]
                post == heap'[sessions[t]]
            IN  \A id \in ParticipantIDs :
                   /\ pre.Winners[id] \subseteq post.Winners[id]
                   /\ \A p \in post.Winners[id] \ pre.Winners[id] :
                         /\ DrawSucceeded
                         /\ last'.tenantID = t
                         /\ last'.arg[1] = p
                         /\ last'.ret[1].WinnerID = id

\* C12: while a session lives, its win record only grows: a pair (winner,
\* prize) stays in it after every later operation, and a pair enters it only
\* by a successful Draw of that prize that selected that winner.
C12_WinsMonotonic == [][WinsStep]_vars

\* A participant holds two wins, and the last draw added the second one.
C12_Witness ==
    /\ last.op = "Draw" /\ last.err = ErrNone
    /\ Cardinality(heap[last.session].Winners[last.ret[1].WinnerID]) = 2

\* ----------------------------------------------------------------- C13
Accessors == {"getSession", "GetPrizes", "GetParticipants", "GetLotteryResults"}

QuantityStep ==
    \A t \in Tenants :
        (sessions[t] # Nil /\ sessions'[t] = sessions[t]) =>
            LET pre == heap[sessions[t]]
                post == heap'[sessions[t]]
                drawn == DrawSucceeded /\ last'.tenantID = t
            IN  /\ Len(post.Prizes) >= Len(pre.Prizes)
                /\ \A i \in 1..Len(pre.Prizes) :
                      LET q == pre.Prizes[i].Quantity
                          q2 == post.Prizes[i].Quantity
                      IN  /\ q2 <= q
                          /\ q2 # q =>
                                /\ drawn
                                /\ i = Target(pre.Prizes, last'.arg[1])
                                /\ q2 = q - 1
                          /\ q = 0 => q2 = 0
                          /\ (last'.op \in Accessors \cup {"AddPrize", "AddParticipant"}
                                \/ (last'.op = "Draw" /\ last'.err # ErrNone)) => q2 = q

\* C13: the quantity of a prize changes only in a successful Draw that
\* targets that prize, and then by exactly -1; no operation increases it, a
\* prize at quantity 0 stays at 0, and AddPrize, AddParticipant, the accessors
\* and failed draws leave every existing quantity as it was.
C13_QuantityStateMachine == [][QuantityStep]_vars

\* GetPrizes returned a prize that draws have taken down to 0 next to a
\* prize added under the same name afterwards.
C13_Witness ==
    /\ last.op = "GetPrizes"
    /\ Len(last.ret) = 2
    /\ last.ret[1].Quantity = 0
    /\ last.ret[2].Name = last.ret[1].Name
    /\ \E k \in 1..Len(heap[last.session].LotteryResults) :
          heap[last.session].LotteryResults[k].PrizeName = last.ret[1].Name

\* ----------------------------------------------------------------- C14
\* The participants the specification calls eligible for the prize.
EligibleSet(s, prize) ==
    {k \in 1..Len(s.Participants) : MayWin(s, prize, s.Participants[k].ID)}

\* The error the specification's order of tests gives.
ExpectedError(s, prizeName) ==
    LET i == Target(s.Prizes, prizeName)
    IN  CASE i = 0 -> ErrPrizeNotFound
          [] i > 0 /\ s.Prizes[i].Quantity <= 0 -> ErrPrizeExhausted
          [] i > 0 /\ s.Prizes[i].Quantity > 0 /\ EligibleSet(s, s.Prizes[i]) = {} ->
                ErrNoEligibleParticipants
          [] OTHER -> ErrNone

ClassificationStep ==
    IsCall("Draw") =>
        LET pre == SessionOf(sessions, heap, last'.tenantID)
            prizeName == last'.arg[1]
            i == Target(pre.Prizes, prizeName)
        IN  /\ last'.err = ExpectedError(pre, prizeName)
            /\ last'.err = ErrPrizeNotFound <=>
                  ~\E j \in 1..Len(pre.Prizes) : pre.Prizes[j].Name = prizeName
            /\ (i > 0 /\ pre.Prizes[i].Quantity <= 0 /\ Len(pre.Participants) = 0) =>
                  last'.err = ErrPrizeExhausted

\* C14: Draw tests in a fixed order: PrizeNotFound exactly when no prize has
\* the name; otherwise PrizeExhausted exactly when the first prize of that
\* name has quantity <= 0, also with no participants at all; otherwise
\* NoEligibleParticipants exactly when no participant is eligible; otherwise
\* the draw succeeds.
C14_ClassificationOrder == [][ClassificationStep]_vars

\* A draw of an exhausted prize in a session without participants failed
\* with PrizeExhausted.
C14_Witness ==
    /\ last.op = "Draw" /\ last.err = ErrPrizeExhausted
    /\ Len(heap[last.session].Participants) = 0

\* ----------------------------------------------------------------- C15
AddParticipantStep ==
    IsCall("AddParticipant") =>
        LET pre == SessionOf(sessions, heap, last'.tenantID)
            post == SessionOf(sessions', heap', last'.tenantID)
            p == last'.arg[1]
            known == \E k \in 1..Len(pre.Participants) : pre.Participants[k].ID = p.ID
        IN  /\ known => post.Participants = pre.Participants
            /\ ~known => post.Participants = Append(pre.Participants, p)
            /\ post.Prizes = pre.Prizes
            /\ post.Winners = pre.Winners
            /\ post.LotteryResults = pre.LotteryResults
            \* adding the same participant once more changes nothing
            /\ AddParticipant(sessions', heap', Live(sessions', procs'), last'.tenantID,
                              p.ID, p.Name, now').heap = heap'

\* C15: AddParticipant with an ID that is already in the session changes
\* nothing (length, order and the stored name stay: the first name wins, and
\* adding twice equals adding once); with a new ID the participant is
\* appended at the end of the list.
C15_AddParticipantNoOp == [][AddParticipantStep]_vars

\* AddParticipant was called with a known ID under another name, and the
\* list still holds the first name.
C15_Witness ==
    /\ last.op = "AddParticipant"
    /\ LET s == heap[last.session]
       IN  /\ Len(s.Participants) = 2
           /\ \E k \in 1..2 :
                 /\ s.Participants[k].ID = last.arg[1].ID
                 /\ s.Participants[k].Name # last.arg[1].Name

\* ----------------------------------------------------------------- C16
SameName(prizes, prizeName) == {j \in 1..Len(prizes) : prizes[j].Name = prizeName}

DuplicateNameStep ==
    LET pre == SessionOf(sessions, heap, last'.tenantID)
        post == SessionOf(sessions', heap', last'.tenantID)
    IN  /\ IsCall("AddPrize") =>
              /\ post.Prizes = Append(pre.Prizes, last'.arg[1])
              /\ post.Participants = pre.Participants
              /\ post.Winners = pre.Winners
              /\ post.LotteryResults = pre.LotteryResults
        /\ IsCall("Draw") =>
              LET dups == SameName(pre.Prizes, last'.arg[1])
              IN  Cardinality(dups) >= 2 =>
                     LET i == CHOOSE i \in dups : \A j \in dups : i <= j
                     IN  /\ last'.err = ErrNone =>
                               /\ post.Prizes[i].Quantity = pre.Prizes[i].Quantity - 1
                               /\ last'.ret[1].PrizeItem = pre.Prizes[i].Item
                               /\ \A j \in 1..Len(pre.Prizes) :
                                     j # i => post.Prizes[j] = pre.Prizes[j]
                         /\ pre.Prizes[i].Quantity = 0 =>
                               /\ last'.err = ErrPrizeExhausted
                               /\ post.Prizes = pre.Prizes

\* C16: AddPrize always appends a prize, also under a name the session
\* already has; a Draw of a name held by several prizes targets the one added
\* first and decrements only that one, and once it is at 0 the Draw fails
\* with PrizeExhausted although a later prize of that name has stock.
C16_DuplicateNames == [][DuplicateNameStep]_vars

\* The first prize of the name was drawn down to 0; the draw failed with
\* PrizeExhausted while the second prize of the name has stock and a
\* participant without any win is present.
C16_Witness ==
    /\ last.op = "Draw" /\ last.err = ErrPrizeExhausted
    /\ LET s == heap[last.session]
       IN  /\ Len(s.Prizes) = 2
           /\ s.Prizes[1].Name = last.arg[1] /\ s.Prizes[2].Name = last.arg[1]
           /\ s.Prizes[1].Quantity = 0 /\ s.Prizes[2].Quantity > 0
           /\ \E k \in 1..Len(s.LotteryResults) :
                 s.LotteryResults[k].PrizeName = last.arg[1]
           /\ \E k \in 1..Len(s.Participants) : s.Winners[s.Participants[k].ID] = {}

\* ----------------------------------------------------------------- C17
ClearStep ==
    IsCall("ClearSession") =>
        LET T == last'.tenantID
        IN  /\ sessions'[T] = Nil
            /\ \A b \in Tenants \ {T} :
                  /\ sessions'[b] = sessions[b]
                  /\ sessions[b] # Nil => heap'[sessions[b]] = heap[sessions[b]]
            /\ sessions[T] = Nil => (sessions' = sessions /\ heap' = heap)

\* What the first access after a removal finds and leaves.
AccessAfterClear ==
    (last.op = "ClearSession" /\ last'.op \in GetSessionOps
       /\ last'.tenantID = last.tenantID) =>
        LET T == last'.tenantID
            post == heap'[sessions'[T]]
            none == Data(NewSession)
        IN  /\ sessions[T] = Nil
            /\ sessions'[T] # Nil
            /\ last'.session = sessions'[T]
            /\ \A b \in Tenants \ {T} : sessions'[b] # sessions'[T]
            /\ post.LastActivity = now
            /\ CASE last'.op = "AddPrize" ->
                      Data(post) = [none EXCEPT !.Prizes = <<last'.arg[1]>>]
                 [] last'.op = "AddParticipant" ->
                      Data(post) = [none EXCEPT !.Participants = <<last'.arg[1]>>]
                 [] last'.op = "Draw" ->
                      Data(post) = none /\ last'.err = ErrPrizeNotFound
                 [] OTHER -> Data(post) = none /\ last'.ret = <<>>

\* C17: ClearSession(T) removes T's session: the store holds no session for
\* T afterwards, the next access for T gets a new session without prizes,
\* participants, win records or results, the sessions of other tenants stay
\* as they were, and for a tenant without a session nothing changes.
C17_ClearSession == [][ClearStep /\ AccessAfterClear]_vars

\* ClearSession removed a session of one tenant while the other tenant holds
\* a session with a result.
C17_Witness ==
    /\ last.op = "ClearSession"
    /\ last.session # Nil
    /\ sessions[last.tenantID] = Nil
    /\ \E b \in Tenants \ {last.tenantID} :
          /\ sessions[b] # Nil
          /\ Len(heap[sessions[b]].LotteryResults) > 0

\* ----------------------------------------------------------------- C18
LastActivityOf(st, h, t) == h[st[t]].LastActivity

HeartbeatStep ==
    \A t \in Tenants :
        IF now' = now /\ last'.op \in GetSessionOps /\ last'.tenantID = t
        THEN /\ sessions'[t] # Nil
             /\ LastActivityOf(sessions', heap', t) = now
        ELSE (sessions[t] # Nil /\ sessions'[t] # Nil) =>
                /\ sessions'[t] = sessions[t]
                /\ LastActivityOf(sessions', heap', t) = LastActivityOf(sessions, heap, t)

\* The sweep keeps a session whose last access is at most one hour old.
SweepKeepsActive ==
    IsCall("CleanUpInactiveSessions") =>
        \A t \in Tenants :
            (sessions[t] # Nil /\ now - LastActivityOf(sessions, heap, t) <= Hour) =>
                sessions'[t] = sessions[t]

\* C18: every access through getSession (accessors, AddPrize, AddParticipant,
\* Draw, GetEligibleParticipants, also when it fails or changes nothing else)
\* sets LastActivity of the accessed tenant's session to the current time and
\* changes the LastActivity of no other session; LastActivity is therefore
\* the time of the tenant's last access, and the sweep does not remove a
\* tenant accessed within the last hour.
C18_Heartbeat == [][HeartbeatStep /\ SweepKeepsActive]_vars

\* A failed draw refreshed a session two hours after the other tenant's
\* last access, which keeps its older LastActivity.
C18_Witness ==
    /\ last.op = "Draw" /\ last.err = ErrPrizeExhausted
    /\ now = 2 * Hour
    /\ LastActivityOf(sessions, heap, last.tenantID) = now
    /\ \E b \in Tenants \ {last.tenantID} :
          sessions[b] # Nil /\ LastActivityOf(sessions, heap, b) = 0

\* ----------------------------------------------------------------- C19
DrawAgreesStep ==
    IsCall("Draw") =>
        LET T == last'.tenantID
            prizeName == last'.arg[1]
            pre == SessionOf(sessions, heap, T)
            e == GetEligibleParticipants(sessions, heap, Live(sessions, procs),
                                         T, prizeName, now)
        IN  /\ last'.err = ErrNone <=> Len(e.ret) > 0
            /\ last'.err = e.err
            /\ last'.err = ErrNone =>
                  LET r == last'.ret[1]
                      i == Target(pre.Prizes, prizeName)
                  IN  /\ \E k \in 1..Len(e.ret) :
                            e.ret[k] = Participant(r.WinnerID, r.WinnerName)
                      /\ \E k \in 1..Len(pre.Participants) :
                            pre.Participants[k] = Participant(r.WinnerID, r.WinnerName)
                      /\ r.PrizeName = prizeName
                      /\ r.PrizeItem = pre.Prizes[i].Item

\* Every participant GetEligibleParticipants lists comes out of the draw for
\* one value of the random index (stated of the state a Draw starts in).
PossibleWinners ==
    IsCall("Draw") =>
        LET T == last'.tenantID
            prizeName == last'.arg[1]
            e == GetEligibleParticipants(sessions, heap, Live(sessions, procs),
                                         T, prizeName, now)
        IN  \A k \in 1..Len(e.ret) :
               \E winnerIndex \in 1..Len(e.ret) :
                  LET d == Draw(sessions, heap, Live(sessions, procs), T,
                                prizeName, winnerIndex, now)
                  IN  /\ d.err = ErrNone
                      /\ d.ret[1].WinnerID = e.ret[k].ID
                      /\ d.ret[1].WinnerName = e.ret[k].Name

\* C19: a Draw succeeds exactly when GetEligibleParticipants returns a
\* non-empty list for the same tenant and prize; its winner is a member of
\* that list; every member of the list is a possible winner; and the result
\* carries the target prize's name and item and the winner's ID and name.
C19_DrawAgreesWithEligible == [][PossibleWinners /\ DrawAgreesStep]_vars

\* Two participants were eligible and the draw selected the second one.
C19_Witness ==
    /\ last.op = "Draw" /\ last.err = ErrNone
    /\ LET s == heap[last.session]
       IN  /\ Len(s.Participants) = 2
           /\ s.Participants[2].ID = last.ret[1].WinnerID
           /\ s.Winners[s.Participants[1].ID] = {}

\* ----------------------------------------------------------------- C11
IsPrefix(a, b) == Len(a) <= Len(b) /\ \A k \in 1..Len(a) : b[k] = a[k]

LogStep ==
    \A t \in Tenants :
        (sessions[t] # Nil /\ sessions'[t] = sessions[t]) =>
            LET pre == heap[sessions[t]].LotteryResults
                post == heap'[sessions[t]].LotteryResults
            IN  /\ IsPrefix(pre, post)
                /\ post # pre =>
                      /\ last'.op = "Draw" /\ last'.err = ErrNone /\ last'.tenantID = t
                      /\ post = Append(pre, last'.ret[1])

\* C11: the result log of a session is append-only and in the order of the
\* draws: the log before a step is a prefix of the log after it, and what a
\* step adds is the result of the draw that succeeded in it, at the end;
\* also when two Draw calls on the same tenant interleave.
C11_AppendOnlyLog == [][LogStep]_vars

\* ----------------------------------------------------------------- C20
\* The results of the session for prize p (only the first prize of a name
\* is ever drawn, and the inputs give each prize its own item).
Awarded(s, p) ==
    Cardinality({k \in 1..Len(s.LotteryResults) :
                    /\ s.LotteryResults[k].PrizeName = p.Name
                    /\ s.LotteryResults[k].PrizeItem = p.Item})

\* C20: under every interleaving of Draw calls on one tenant and prize, the
\* number of results for a prize added with quantity q is at most q and no
\* quantity is below 0: a prize of quantity 1 is not awarded twice.
C20_DrawsSerialised ==
    \A t \in Tenants :
        LET s == SessionOf(sessions, heap, t)
        IN  /\ \A i \in 1..Len(s.Prizes) : s.Prizes[i].Quantity >= 0
            /\ \A p \in ConcPrizes : Awarded(s, p) <= p.Quantity

\* ----------------------------------------------------------------- C21
\* The results participant id holds for prizes added with this drawFromAll
\* flag (the inputs give each prize its own item).
WinsOfKind(s, id, drawFromAll) ==
    {k \in 1..Len(s.LotteryResults) :
        /\ s.LotteryResults[k].WinnerID = id
        /\ \E p \in ConcPrizes :
              /\ p.Name = s.LotteryResults[k].PrizeName
              /\ p.Item = s.LotteryResults[k].PrizeItem
              /\ p.DrawFromAll = drawFromAll}

NoDoubleExclusiveWin(s) ==
    \A id \in ParticipantIDs : Cardinality(WinsOfKind(s, id, FALSE)) <= 1

NoDoubleFromAllWin(s) ==
    \A id \in ParticipantIDs : \A prizeName \in PrizeNames :
        Cardinality({k \in WinsOfKind(s, id, TRUE) :
                        s.LotteryResults[k].PrizeName = prizeName}) <= 1

\* C21: under every interleaving of Draw calls on one tenant, no participant
\* is the winner of two prizes that are not drawFromAll, and no participant
\* is the winner of the same drawFromAll prize name twice.
C21_ExclusivityUnderConcurrency ==
    \A t \in Tenants :
        /\ NoDoubleExclusiveWin(SessionOf(sessions, heap, t))
        /\ NoDoubleFromAllWin(SessionOf(sessions, heap, t))

\* ----------------------------------------------------------------- C22
\* The program points at which a request is about to write into the session
\* it holds.
MutatingPcs == {"write", "put", "win"}

\* C22: a foreground operation never applies its mutation to a session that
\* the sweep or ClearSession has removed from the store: a request that is
\* about to write holds the session the store has for its tenant.
C22_NoMutationAfterRemoval ==
    \A r \in Procs :
        procs[r].pc \in MutatingPcs => sessions[procs[r].tenantID] = procs[r].session

\* ----------------------------------------------------------------- C23
\* C23: once GetEligibleParticipants has returned without error, the lookup
\* of the prize in the session Draw obtained at its start finds it: the
\* target prize is not nil when its quantity is decremented, and no Draw ends
\* in a nil dereference, whatever ClearSession, AddPrize and AddParticipant
\* calls of other requests come in between.
C23_TargetNeverNil ==
    /\ \A r \in Procs : procs[r].pc = "take" => procs[r].target # 0
    /\ last.err # ErrPanic

\* ----------------------------------------------------------------- C28
\* The entries of the session's result log name a participant and a prize
\* of the same session.
OwnEntries(s) ==
    \A k \in 1..Len(s.LotteryResults) :
        LET e == s.LotteryResults[k]
        IN  /\ \E i \in 1..Len(s.Participants) :
                  s.Participants[i] = Participant(e.WinnerID, e.WinnerName)
            /\ \E i \in 1..Len(s.Prizes) :
                  s.Prizes[i].Name = e.PrizeName /\ s.Prizes[i].Item = e.PrizeItem

\* The entry a successful Draw appends, against the session it is appended
\* to as that session is when the step starts (the request holds it).
AppendedEntryIsOwn ==
    (last' # last /\ last'.op = "Draw" /\ last'.err = ErrNone) =>
        LET s == heap[last'.session]
            e == last'.ret[1]
        IN  /\ \E i \in 1..Len(s.Participants) :
                  s.Participants[i] = Participant(e.WinnerID, e.WinnerName)
            /\ \E i \in 1..Len(s.Prizes) :
                  s.Prizes[i].Name = e.PrizeName /\ s.Prizes[i].Item = e.PrizeItem

\* C28: every entry of the result log of a session (in the store or held by
\* a request in flight) has the ID and name of a participant of that session
\* and the name and item of a prize of that session, also when a Draw
\* interleaves with ClearSession and the re-creation of the tenant's session.
C28_EntriesReferToOwnSession ==
    [][AppendedEntryIsOwn /\ \A o \in Live(sessions', procs') : OwnEntries(heap'[o])]_vars

\* ----------------------------------------------------------------- C26
EntriesOf(s, prizeName, id) ==
    {k \in 1..Len(s.LotteryResults) :
        s.LotteryResults[k].PrizeName = prizeName /\ s.LotteryResults[k].WinnerID = id}

WinsMatchLog(s) ==
    \A id \in ParticipantIDs : \A prizeName \in PrizeNames :
        /\ prizeName \in s.Winners[id] <=> EntriesOf(s, prizeName, id) # {}
        /\ Cardinality(EntriesOf(s, prizeName, id)) <= 1

\* C26: in a session built by the service operations, participant w's win
\* record holds prize name p exactly when the result log has an entry with
\* prize name p and winner w, and no pair (prize name, winner) is in the log
\* twice.
C26_WinsMatchLog ==
    \A t \in Tenants : WinsMatchLog(SessionOf(sessions, heap, t))

\* Three draws are logged: one participant won two prize names, the other
\* one.
C26_Witness ==
    LET s == SessionOf(sessions, heap, "t1")
    IN  /\ Len(s.LotteryResults) = 3
        /\ \E id \in ParticipantIDs : Cardinality(s.Winners[id]) = 2
        /\ \E id \in ParticipantIDs : Cardinality(s.Winners[id]) = 1

\* ----------------------------------------------------------------- C27
CountOf(s, prizeName) ==
    Cardinality({k \in 1..Len(s.LotteryResults) :
                    s.LotteryResults[k].PrizeName = prizeName})

\* Conservation, step by step: when the first prize of a name enters the
\* session it holds the quantity it was added with and the log has no
\* entry of that name; from then on what its quantity loses in a step is
\* what the log gains in entries of that name.
ConservationStep ==
    \A t \in Tenants : \A prizeName \in PrizeNames :
        LET pre == SessionOf(sessions, heap, t)
            post == SessionOf(sessions', heap', t)
            i == Target(pre.Prizes, prizeName)
            j == Target(post.Prizes, prizeName)
        IN  sessions'[t] # Nil =>
               CASE i = 0 /\ j = 0 -> CountOf(post, prizeName) = 0
                 [] i = 0 /\ j > 0 ->
                       /\ last'.op = "AddPrize" /\ last'.tenantID = t
                       /\ post.Prizes[j] = last'.arg[1]
                       /\ CountOf(post, prizeName) = 0
                 [] OTHER ->
                       /\ j = i
                       /\ pre.Prizes[i].Quantity - post.Prizes[i].Quantity =
                             CountOf(post, prizeName) - CountOf(pre, prizeName)

\* C27: in every state of a session and for every prize name, the quantity
\* the first prize of that name was added with, less its remaining
\* quantity, is the number of log entries with that prize name.
C27_StockConservation == [][ConservationStep]_vars

\* The first prize of a name went from 2 to 0 with two entries in the log,
\* next to an untouched prize of the same name.
C27_Witness ==
    /\ last.op = "Draw" /\ last.err = ErrNone
    /\ LET s == heap[last.session]
       IN  /\ Len(s.Prizes) = 2
           /\ s.Prizes[1].Name = last.arg[1] /\ s.Prizes[2].Name = last.arg[1]
           /\ s.Prizes[1].Quantity = 0 /\ s.Prizes[2].Quantity > 0
           /\ CountOf(s, last.arg[1]) = 2

\* ----------------------------------------------------------------- C29
ReadOnlyOps == Accessors \cup {"GetEligibleParticipants"}

\* What one call leaves in a session that was created for it.
CreatedBy(c) ==
    CASE c.op = "AddPrize" -> [Data(NewSession) EXCEPT !.Prizes = <<c.arg[1]>>]
      [] c.op = "AddParticipant" -> [Data(NewSession) EXCEPT !.Participants = <<c.arg[1]>>]
      [] OTHER -> Data(NewSession)

\* literal: whether the session left behind is empty for every operation.
CreationStep(literal) ==
    (now' = now /\ last'.op \in GetSessionOps /\ sessions[last'.tenantID] = Nil) =>
        LET T == last'.tenantID
        IN  /\ sessions'[T] # Nil
            /\ last'.session = sessions'[T]
            /\ Data(heap'[sessions'[T]]) =
                  (IF literal THEN Data(NewSession) ELSE CreatedBy(last'))
            /\ last'.op = "Draw" => last'.err = ErrPrizeNotFound

ReadOnlyStep ==
    (now' = now /\ last'.op \in ReadOnlyOps) =>
        LET T == last'.tenantID
        IN  /\ Data(SessionOf(sessions', heap', T)) = Data(SessionOf(sessions, heap, T))
            /\ sessions[T] # Nil => sessions'[T] = sessions[T]
            /\ \A b \in Tenants \ {T} :
                  /\ sessions'[b] = sessions[b]
                  /\ sessions[b] # Nil => heap'[sessions[b]] = heap[sessions[b]]

\* C29 as worded: every call for a tenant without a session, AddPrize and
\* AddParticipant included, leaves an empty session for the tenant.
C29_Original == [][CreationStep(TRUE) /\ ReadOnlyStep]_vars

\* C29: a call for a tenant without a session (accessor, AddPrize,
\* AddParticipant, GetEligibleParticipants, Draw) leaves a session for that
\* tenant in the store that holds what the call itself added and nothing
\* else; the accessors and GetEligibleParticipants change nothing but this
\* creation and the last-activity time.
C29_CreationOnAccess == [][CreationStep(FALSE) /\ ReadOnlyStep]_vars

\* A draw for a tenant left an empty session, created at this time, while
\* the other tenant holds a session with a prize.
C29_Witness ==
    /\ last.op = "Draw" /\ last.err = ErrPrizeNotFound
    /\ Data(heap[last.session]) = Data(NewSession)
    /\ \E b \in Tenants \ {last.tenantID} :
          sessions[b] # Nil /\ Len(heap[sessions[b]].Prizes) > 0

\* ---------------------------------------------------------------- C24
\* The requests that are in the middle of a sweep.
Sweeping == {r \in Procs : procs[r].pc = "CleanUp.range"}

\* While a request is in the middle of a sweep, a step of any other request
\* or of the clock leaves the store and every stored session as they are,
\* and a step of the sweep itself only deletes entries.
SweepAtomicStep ==
    \A r \in Sweeping :
        IF procs'[r] = procs[r]
        THEN /\ sessions' = sessions
             /\ \A tenantID \in Tenants :
                   sessions[tenantID] # Nil =>
                       heap'[sessions[tenantID]] = heap[sessions[tenantID]]
        ELSE /\ \A tenantID \in Tenants : sessions'[tenantID] \in {sessions[tenantID], Nil}
             /\ \A tenantID \in Tenants :
                   sessions'[tenantID] # Nil =>
                       heap'[sessions'[tenantID]] = heap[sessions'[tenantID]]

\* At most one request is inside a critical section of the store.
MutualExclusion == Cardinality(MutexHolders(procs)) <= 1

\* C24: the sweep holds the store mutex from its first examination to its
\* last deletion: no getSession and no ClearSession takes effect in the
\* middle of it, and at most one of getSession, ClearSession and
\* CleanUpInactiveSessions is inside its critical section at any time.
C24_SweepAtomic == [][SweepAtomicStep /\ MutualExclusion']_vars

\* A sweep has deleted the expired session of one tenant and has the other
\* tenant's still to examine, while another request waits at the mutex to
\* recreate the deleted one.
C24_Witness ==
    \E r \in Procs, w \in Procs, tenantID \in Tenants :
        /\ w # r
        /\ procs[r].pc = "CleanUp.range"
        /\ procs[r].todo # {}
        /\ tenantID \notin procs[r].todo
        /\ sessions[tenantID] = Nil
        /\ procs[w].pc = "getSession.lock"
        /\ procs[w].tenantID = tenantID

\* ---------------------------------------------------------------- C25
\* C25: under fair scheduling of concurrent AddPrize, AddParticipant, Draw,
\* accessor, ClearSession and sweep calls, every call that has begun
\* eventually returns.
C25_EveryCallReturns ==
    \A r \in Procs : (procs[r].pc # "idle") ~> (procs[r].pc = "idle")

====
